---- MODULE Spec2Model ----
(***************************************************************************)
(* DearPyGui-Obj: the item registry of dearpygui_obj/__init__.py, the      *)
(* config properties of window.py, basic.py, layout.py and node.py, and    *)
(* the node links of node.py and the container scoping of window.py,       *)
(* layout.py and node.py, over a model of the DearPyGui engine's item      *)
(* table, per-item configuration store, link list and container stack.     *)
(***************************************************************************)
EXTENDS Naturals, Sequences, FiniteSets

VARIABLES
    engItems,       \* engine: the live item names, in creation order
    engType,        \* engine: live name -> type tag
    engParent,      \* engine: live name -> parent name ("" for a window)
    _ITEM_LOOKUP,   \* registry: name -> wrapper instance
    _ITEM_TYPES,    \* type registry: type tag -> constructor (a class)
    _default_ctor,  \* fallback constructor, or None
    wrappers,       \* the wrapper objects constructed so far: instance -> fields
    held,           \* the instances the program holds a reference to
    stack,          \* engine: the containers that are open, innermost last
    scopes,         \* the with-blocks the program is inside, innermost first
    raised,         \* an exception is propagating
    config,         \* engine: widget name -> its configuration (key -> value)
    links,          \* engine: the node editor's links, pairs of attribute names
    log             \* the last call: what it was given and how it ended

vars == <<engItems, engType, engParent, _ITEM_LOOKUP, _ITEM_TYPES, _default_ctor,
          wrappers, held, stack, scopes, raised, config, links, log>>

scopeVars == <<stack, scopes, raised>>

regVars == <<engItems, engType, engParent, _ITEM_LOOKUP, _ITEM_TYPES, _default_ctor,
             wrappers, held, scopeVars>>

----------------------------------------------------------------------------
\* Bounds and finite input sets

\* The number of wrapper objects a run constructs.
MaxInst == 2

\* The largest integer a configuration value takes.
MaxCoord == 1

\* Containers open in the engine at one time.
MaxDepth == 3

\* Python's None, as an instance and as a constructor.
None == 0
NoCtor == "None"

Ids == {"win1", "grp1", "btn1"}

WindowTag == "mvAppItemType::Window"
ChildTag == "mvAppItemType::Child"
ButtonTag == "mvAppItemType::Button"
NodeEditorTag == "mvAppItemType::NodeEditor"
NodeTag == "mvAppItemType::Node"
NodeAttributeTag == "mvAppItemType::NodeAttribute"
Tags == {WindowTag, ChildTag, ButtonTag}

\* The class each decorator registers under its tag.
ClassOfTag(tag) ==
    CASE tag = WindowTag -> "Window"
      [] tag = ChildTag -> "ScrollView"
      [] tag = ButtonTag -> "Button"
      [] tag = NodeEditorTag -> "NodeEditor"
      [] tag = NodeTag -> "Node"
      [] tag = NodeAttributeTag -> "NodeAttribute"

DefaultClass == "PyGuiBase"
Classes == {ClassOfTag(t) : t \in Tags} \cup {DefaultClass}

\* The type each name's item is created with: add_window, add_child,
\* add_node_editor, add_node, add_node_attribute, add_button.
TagOfId(name) ==
    CASE name = "win1" -> WindowTag
      [] name = "grp1" -> ChildTag
      [] name = "ned1" -> NodeEditorTag
      [] name = "node1" -> NodeTag
      [] name = "nattr1" -> NodeAttributeTag
      [] OTHER -> ButtonTag

Range(s) == {s[i] : i \in 1..Len(s)}

----------------------------------------------------------------------------
\* The engine (dearpygui.core), as the registry sees it

does_item_exist(name) == name \in Range(engItems)

get_item_type(name) == engType[name]

\* The direct children of an item, in engine order; None for a name that is
\* not an item.
get_item_children(name) ==
    IF ~does_item_exist(name)
    THEN [none |-> TRUE, list |-> <<>>]
    ELSE [none |-> FALSE,
          list |-> SelectSeq(engItems, LAMBDA c : engParent[c] = name)]

IsContainerTag(tag) ==
    tag \in {WindowTag, ChildTag, NodeEditorTag, NodeTag, NodeAttributeTag}

\* An item is added at the end of the item table: a window at the top level,
\* anything else inside a live container.
CanAdd(name, par) ==
    /\ ~does_item_exist(name)
    /\ IF TagOfId(name) = WindowTag
       THEN par = ""
       ELSE does_item_exist(par) /\ IsContainerTag(engType[par])

Put(f, k, v) == [x \in DOMAIN f \cup {k} |-> IF x = k THEN v ELSE f[x]]

Pop(f, k) == [x \in DOMAIN f \ {k} |-> f[x]]

RECURSIVE Ancestors(_, _)
Ancestors(parent, name) ==
    IF name \notin DOMAIN parent \/ parent[name] = ""
    THEN {}
    ELSE {parent[name]} \cup Ancestors(parent, parent[name])

\* delete_item removes an item together with everything inside it.
Subtree(name) ==
    {name} \cup {d \in Range(engItems) : name \in Ancestors(engParent, d)}

----------------------------------------------------------------------------
\* The engine's per-item configuration store and the config properties

\* The widgets whose properties are set and read, and the configuration the
\* engine gives each when it is added.
NewConfig ==
    [win1 |-> [label |-> "", x_pos |-> 0, y_pos |-> 0],
     btn1 |-> [small |-> FALSE, arrow |-> FALSE, direction |-> 0],
     pb1 |-> [overlay |-> ""],
     sp1 |-> [count |-> 0],
     attr1 |-> [output |-> FALSE, static |-> FALSE],
     attr2 |-> [output |-> FALSE, static |-> FALSE]]

Widgets == DOMAIN NewConfig

NodeAttributes == {"attr1", "attr2"}

Strs == {"", "a"}
Coords == 0..MaxCoord

get_item_configuration(name) == config[name]

\* configure_item(name, **update): a partial merge into the item's configuration.
configure_item(cfg, name, update) ==
    [cfg EXCEPT ![name] =
        [k \in DOMAIN @ \cup DOMAIN update |->
            IF k \in DOMAIN update THEN update[k] ELSE @[k]]]

\* How a property read ends: the value, or the exception.
Read(st, val) == [status |-> st, val |-> val]

\* The key ProgressBar.overlay_text names, as if declared with no key.
ProgressBar_overlay_text_ownname == "overlay_text"

\* overlay_text: str = ConfigProperty(key='overlay')
ProgressBar_overlay_text_key == "overlay"

\* space: int = ConfigProperty(key='count')
VSpacing_space_key == "count"

\* The engine key of a property declared by ConfigProperty(): the key given,
\* or the attribute's own name.
ConfigKey(attr) ==
    CASE attr = "overlay_text" -> ProgressBar_overlay_text_key
      [] attr = "space" -> VSpacing_space_key
      [] OTHER -> attr

\* ConfigProperty.__get__ with no custom getter: the entry at the key.
ConfigProperty_get(name, attr) ==
    LET c == get_item_configuration(name)
    IN  IF ConfigKey(attr) \in DOMAIN c
        THEN Read("ok", c[ConfigKey(attr)])
        ELSE Read("KeyError", "")

\* ConfigProperty.__set__ with no custom getconfig: {key: value}.
ConfigProperty_getconfig(attr, value) == [k \in {ConfigKey(attr)} |-> value]

\* Window.pos
Window_pos(name) ==
    LET c == get_item_configuration(name)
    IN  Read("ok", <<c["x_pos"], c["y_pos"]>>)

Window_pos_getconfig(value) == [x_pos |-> value[1], y_pos |-> value[2]]

\* class ButtonArrow(Enum): the members and their values.
ButtonArrows == {"Left", "Right", "Up", "Down"}

ButtonArrow_value(member) ==
    CASE member = "Left" -> 0
      [] member = "Right" -> 1
      [] member = "Up" -> 2
      [] member = "Down" -> 3

\* ButtonArrow(value): the member with the value, or ValueError.
ButtonArrow(value) ==
    IF \E m \in ButtonArrows : ButtonArrow_value(m) = value
    THEN Read("ok", CHOOSE m \in ButtonArrows : ButtonArrow_value(m) = value)
    ELSE Read("ValueError", "")

\* Button.arrow
Button_arrow(name) ==
    LET c == get_item_configuration(name)
    IN  IF ~c["arrow"] THEN Read("ok", "None") ELSE ButtonArrow(c["direction"])

\* Button.arrow's getconfig that sets the flag and leaves the direction.
Button_arrow_getconfig_flagonly(adir) == [arrow |-> adir # "None"]

\* Button.arrow's getconfig that also resets the direction when the arrow is
\* turned off.
Button_arrow_getconfig_reset(adir) ==
    IF adir = "None"
    THEN [arrow |-> FALSE, direction |-> 0]
    ELSE [arrow |-> TRUE, direction |-> ButtonArrow_value(adir)]

Button_arrow_getconfig(adir) ==
    IF adir = "None"
    THEN [arrow |-> FALSE]
    ELSE [arrow |-> TRUE, direction |-> ButtonArrow_value(adir)]

\* class NodeAttributeType(Enum), in definition order: the members and their
\* values (Input's value is None).
NodeAttributeType ==
    <<[name |-> "Input", value |-> "None"],
      [name |-> "Output", value |-> "output"],
      [name |-> "Static", value |-> "static"]>>

NodeAttributeTypes == {NodeAttributeType[i].name : i \in 1..Len(NodeAttributeType)}

\* config.get(key): the entry, or None (falsy) for a missing key.
config_get(c, key) == IF key \in DOMAIN c THEN c[key] ELSE FALSE

RECURSIVE FirstMode(_, _)
\* for mode in NodeAttributeType: if mode.value is not None and
\* config.get(mode.value): return mode; return NodeAttributeType.Input
FirstMode(c, modes) ==
    IF modes = <<>>
    THEN "Input"
    ELSE IF Head(modes).value # "None" /\ config_get(c, Head(modes).value)
         THEN Head(modes).name
         ELSE FirstMode(c, Tail(modes))

\* NodeAttribute.type
NodeAttribute_type(name) ==
    Read("ok", FirstMode(get_item_configuration(name), NodeAttributeType))

NodeAttribute_type_getconfig(value) ==
    LET modes == {i \in 1..Len(NodeAttributeType) : NodeAttributeType[i].value # "None"}
    IN  [k \in {NodeAttributeType[i].value : i \in modes} |->
            \E i \in modes : NodeAttributeType[i].value = k
                             /\ NodeAttributeType[i].name = value]

\* The properties of each widget: those declared with no custom transform, and
\* the composite ones.
PlainProps ==
    {<<"win1", "label">>, <<"win1", "x_pos">>, <<"win1", "y_pos">>,
     <<"btn1", "small">>, <<"pb1", "overlay_text">>, <<"sp1", "space">>}

CompositeProps ==
    {<<"win1", "pos">>, <<"btn1", "arrow">>} \cup {<<a, "type">> : a \in NodeAttributes}

Props == PlainProps \cup CompositeProps

\* The values a property is assigned.
ValuesOf(attr) ==
    CASE attr \in {"label", "overlay_text"} -> Strs
      [] attr \in {"x_pos", "y_pos", "space"} -> Coords
      [] attr = "small" -> BOOLEAN
      [] attr = "pos" -> Coords \X Coords
      [] attr = "arrow" -> ButtonArrows \cup {"None"}
      [] attr = "type" -> NodeAttributeTypes

\* The values the engine holds under a key.
EngineValues(key) ==
    CASE key \in {"label", "overlay"} -> Strs
      [] key \in {"x_pos", "y_pos", "count"} -> Coords
      [] key = "direction" -> {ButtonArrow_value(m) : m \in ButtonArrows}
      [] OTHER -> BOOLEAN

\* Reading a property: the descriptor's __get__.
ReadProp(name, attr) ==
    CASE attr = "pos" -> Window_pos(name)
      [] attr = "arrow" -> Button_arrow(name)
      [] attr = "type" -> NodeAttribute_type(name)
      [] OTHER -> ConfigProperty_get(name, attr)

\* The update an assignment makes: the descriptor's getconfig.
UpdateFor(attr, value) ==
    CASE attr = "pos" -> Window_pos_getconfig(value)
      [] attr = "arrow" -> Button_arrow_getconfig(value)
      [] attr = "type" -> NodeAttribute_type_getconfig(value)
      [] OTHER -> ConfigProperty_getconfig(attr, value)

----------------------------------------------------------------------------
\* Node links: dearpygui_obj/node.py

is_input(name) == NodeAttribute_type(name).val = "Input"

is_output(name) == NodeAttribute_type(name).val = "Output"

is_static(name) == NodeAttribute_type(name).val = "Static"

\* How from_endpoints ends: the NodeLink, or NodeLinkError.
Link(st, input, output) == [status |-> st, input |-> input, output |-> output]

\* from_endpoints that counts the inputs only and takes the other end as the
\* output.
from_endpoints_inputs_only(end1, end2) ==
    LET endpoints == <<end1, end2>>
        inputs == SelectSeq(endpoints, is_input)
        others == SelectSeq(endpoints, LAMBDA e : ~is_input(e))
    IN  IF Len(inputs) # 1
        THEN Link("NodeLinkError", "", "")
        ELSE Link("ok", inputs[1], others[1])

\* NodeLink.from_endpoints(end1, end2)
from_endpoints(end1, end2) ==
    LET endpoints == <<end1, end2>>
        inputs == SelectSeq(endpoints, is_input)
        outputs == SelectSeq(endpoints, is_output)
    IN  IF Len(inputs) # 1
        THEN Link("NodeLinkError", "", "")
        ELSE IF Len(outputs) # 1
             THEN Link("NodeLinkError", "", "")
             ELSE Link("ok", inputs[1], outputs[1])

\* dearpygui.core.add_node_link(editor, node_1, node_2)
add_node_link(ls, id1, id2) == ls \cup {<<id1, id2>>}

\* dearpygui.core.delete_node_link(editor, node_1, node_2)
delete_node_link(ls, id1, id2) == ls \ {<<id1, id2>>}

----------------------------------------------------------------------------
\* The registry: dearpygui_obj/__init__.py

\* _register_item that warns and keeps the entry the name already has.
_register_item_keep(lookup, name, instance) ==
    [warned |-> name \in DOMAIN lookup,
     lookup |-> IF name \in DOMAIN lookup THEN lookup ELSE Put(lookup, name, instance)]

\* _register_item(name, instance): the registry after the call, and whether
\* the call warned.
_register_item(lookup, name, instance) ==
    [warned |-> name \in DOMAIN lookup,
     lookup |-> Put(lookup, name, instance)]

\* The wrapper constructor, called for a name: a new object that registers
\* itself under the name.
ctor_in(lookup, ws, cls, name) ==
    LET inst == Len(ws) + 1
        r == _register_item(lookup, name, inst)
    IN  [ret |-> inst,
         cls |-> cls,
         wrappers |-> Append(ws, [id |-> name]),
         lookup |-> r.lookup,
         warned |-> r.warned]

\* The constructor called in the current state.
ctor(cls, name) == ctor_in(_ITEM_LOOKUP, wrappers, cls, name)

\* How a call ends: the exception or "ok", the value returned, the class
\* constructed (if one was), whether it warned, and the state it leaves.
Result(st, ret, made, warned, lookup, ws) ==
    [status |-> st, ret |-> ret, made |-> made, warned |-> warned,
     lookup |-> lookup, wrappers |-> ws]

\* The constructor get_item_by_id looks up for an item's type tag.
CtorFor(types, dflt, item_type) ==
    IF item_type \in DOMAIN types THEN types[item_type] ELSE dflt

\* get_item_by_id that constructs a wrapper on every call, never reading the
\* registry.
get_item_by_id_nocache(name) ==
    IF ~does_item_exist(name)
    THEN Result("KeyError", None, NoCtor, FALSE, _ITEM_LOOKUP, wrappers)
    ELSE LET c == CtorFor(_ITEM_TYPES, _default_ctor, get_item_type(name))
         IN  IF c = NoCtor
             THEN Result("ValueError", None, NoCtor, FALSE, _ITEM_LOOKUP, wrappers)
             ELSE LET made == ctor(c, name)
                  IN  Result("ok", made.ret, made.cls, made.warned,
                             made.lookup, made.wrappers)

\* get_item_by_id that reads the registry before it asks the engine.
get_item_by_id_cachefirst(name) ==
    LET item == IF name \in DOMAIN _ITEM_LOOKUP THEN _ITEM_LOOKUP[name] ELSE None
    IN  IF item # None
        THEN Result("ok", item, NoCtor, FALSE, _ITEM_LOOKUP, wrappers)
        ELSE IF ~does_item_exist(name)
        THEN Result("KeyError", None, NoCtor, FALSE, _ITEM_LOOKUP, wrappers)
        ELSE LET c == CtorFor(_ITEM_TYPES, _default_ctor, get_item_type(name))
             IN  IF c = NoCtor
                 THEN Result("ValueError", None, NoCtor, FALSE, _ITEM_LOOKUP, wrappers)
                 ELSE LET made == ctor(c, name)
                      IN  Result("ok", made.ret, made.cls, made.warned,
                                 made.lookup, made.wrappers)

\* get_item_by_id that takes the default constructor whenever one is set.
get_item_by_id_default(name) ==
    IF ~does_item_exist(name)
    THEN Result("KeyError", None, NoCtor, FALSE, _ITEM_LOOKUP, wrappers)
    ELSE LET item == IF name \in DOMAIN _ITEM_LOOKUP THEN _ITEM_LOOKUP[name] ELSE None
         IN  IF item # None
             THEN Result("ok", item, NoCtor, FALSE, _ITEM_LOOKUP, wrappers)
             ELSE LET c == CtorFor(_ITEM_TYPES, _default_ctor, get_item_type(name))
                      d == IF _default_ctor # NoCtor THEN _default_ctor ELSE c
                  IN  IF d = NoCtor
                      THEN Result("ValueError", None, NoCtor, FALSE, _ITEM_LOOKUP, wrappers)
                      ELSE LET made == ctor(d, name)
                           IN  Result("ok", made.ret, made.cls, made.warned,
                                      made.lookup, made.wrappers)

\* get_item_by_id without the check that a constructor was found.
get_item_by_id_nocheck(name) ==
    IF ~does_item_exist(name)
    THEN Result("KeyError", None, NoCtor, FALSE, _ITEM_LOOKUP, wrappers)
    ELSE LET item == IF name \in DOMAIN _ITEM_LOOKUP THEN _ITEM_LOOKUP[name] ELSE None
         IN  IF item # None
             THEN Result("ok", item, NoCtor, FALSE, _ITEM_LOOKUP, wrappers)
             ELSE LET made == ctor(CtorFor(_ITEM_TYPES, _default_ctor, get_item_type(name)),
                                   name)
                  IN  Result("ok", made.ret, made.cls, made.warned,
                             made.lookup, made.wrappers)

\* get_item_by_id(name) called when the registry is lookup and the wrapper
\* objects are ws: how the call ends, what it returns, and the registry and
\* the wrapper objects after it.
get_item_by_id_in(lookup, ws, name) ==
    IF ~does_item_exist(name)
    THEN Result("KeyError", None, NoCtor, FALSE, lookup, ws)
    ELSE LET item == IF name \in DOMAIN lookup THEN lookup[name] ELSE None
         IN  IF item # None
             THEN Result("ok", item, NoCtor, FALSE, lookup, ws)
             ELSE LET item_type == get_item_type(name)
                      c == CtorFor(_ITEM_TYPES, _default_ctor, item_type)
                  IN  IF c = NoCtor
                      THEN Result("ValueError", None, NoCtor, FALSE, lookup, ws)
                      ELSE LET made == ctor_in(lookup, ws, c, name)
                           IN  Result("ok", made.ret, made.cls, made.warned,
                                      made.lookup, made.wrappers)

\* get_item_by_id(name) called in the current state.
get_item_by_id(name) == get_item_by_id_in(_ITEM_LOOKUP, wrappers, name)

\* dearpygui.core.get_all_items(): the items that are not windows, in the
\* engine's order.
get_all_items == SelectSeq(engItems, LAMBDA x : engType[x] # WindowTag)

\* dearpygui.core.get_windows(): the windows, in the engine's order.
get_windows == SelectSeq(engItems, LAMBDA x : engType[x] = WindowTag)

\* How an iteration ends: "ok" or the exception of the get_item_by_id call
\* that ended it and the identifier of that call, the wrappers yielded up to
\* then, and the state it leaves.
Iteration(st, name, yielded, lookup, ws) ==
    [status |-> st, name |-> name, yielded |-> yielded,
     lookup |-> lookup, wrappers |-> ws]

\* for name in names: yield get_item_by_id(name)
RECURSIVE YieldEach(_, _, _, _)
YieldEach(lookup, ws, names, yielded) ==
    IF names = <<>>
    THEN Iteration("ok", "", yielded, lookup, ws)
    ELSE LET r == get_item_by_id_in(lookup, ws, Head(names))
         IN  IF r.status # "ok"
             THEN Iteration(r.status, Head(names), yielded, r.lookup, r.wrappers)
             ELSE YieldEach(r.lookup, r.wrappers, Tail(names), Append(yielded, r.ret))

\* iter_all_items that walks the windows' identifiers.
iter_all_items_windows == YieldEach(_ITEM_LOOKUP, wrappers, get_windows, <<>>)

\* iter_all_items() consumed to its end.
iter_all_items == YieldEach(_ITEM_LOOKUP, wrappers, get_all_items, <<>>)

\* iter_all_windows() consumed to its end.
iter_all_windows == YieldEach(_ITEM_LOOKUP, wrappers, get_windows, <<>>)

\* _unregister_item that removes the children's entries and not those of the
\* children's own children.
_unregister_item_shallow(lookup, name, unregister_children) ==
    LET popped == Pop(lookup, name)
        children == get_item_children(name)
    IN  IF unregister_children /\ ~children.none
        THEN [x \in DOMAIN popped \ Range(children.list) |-> popped[x]]
        ELSE popped

\* _unregister_item that removes the entries of everything inside the item
\* whatever unregister_children is.
_unregister_item_always(lookup, name, unregister_children) ==
    [x \in DOMAIN lookup \ Subtree(name) |-> lookup[x]]

RECURSIVE _unregister_item(_, _, _)
RECURSIVE UnregisterEach(_, _)
\* for child_name in children: _unregister_item(child_name, True)
UnregisterEach(lookup, children) ==
    IF children = <<>>
    THEN lookup
    ELSE UnregisterEach(_unregister_item(lookup, Head(children), TRUE), Tail(children))

\* _unregister_item(name, unregister_children): the registry after the call.
_unregister_item(lookup, name, unregister_children) ==
    LET popped == Pop(lookup, name)
    IN  IF unregister_children
        THEN LET children == get_item_children(name)
             IN  IF ~children.none
                 THEN UnregisterEach(popped, children.list)
                 ELSE popped
        ELSE popped

----------------------------------------------------------------------------
\* The calls

\* The record of the last call: the operation and the name it was given, how it
\* ended, what it returned, the class it constructed, whether it warned; for
\* _unregister_item the flag it was given and the entries it removed; for
\* _register_item the entry the name had before; for get_item_by_id what the
\* call just before returned, when that was get_item_by_id of the same name,
\* and whether that call constructed it.
NoCall ==
    [op |-> "none", name |-> "", status |-> "ok", ret |-> None, made |-> NoCtor,
     warned |-> FALSE, cascade |-> FALSE, before |-> None, lazy |-> FALSE,
     removed |-> {}, yielded |-> <<>>]

Call(op, name) == [NoCall EXCEPT !.op = op, !.name = name]

Get(lookup, name) == IF name \in DOMAIN lookup THEN lookup[name] ELSE None

InitRegistry ==
    /\ engItems = <<>>
    /\ engType = << >>
    /\ engParent = << >>
    /\ _ITEM_LOOKUP = << >>
    /\ _ITEM_TYPES = << >>
    /\ _default_ctor = NoCtor
    /\ wrappers = <<>>
    /\ held = {}
    /\ stack = <<>>
    /\ scopes = <<>>
    /\ raised = FALSE

Init ==
    /\ InitRegistry
    /\ config = NewConfig
    /\ links = {}
    /\ log = NoCall

add_item(name, par) ==
    /\ engItems' = Append(engItems, name)
    /\ engType' = Put(engType, name, TagOfId(name))
    /\ engParent' = Put(engParent, name, par)

\* An item made through dearpygui.core directly, outside the wrapper library.
EngineAddItem(name, par) ==
    /\ CanAdd(name, par)
    /\ add_item(name, par)
    /\ log' = NoCall
    /\ UNCHANGED <<_ITEM_LOOKUP, _ITEM_TYPES, _default_ctor, wrappers>>

\* dearpygui.core.delete_item called directly: the registry is not told.
EngineDeleteItem(name) ==
    /\ does_item_exist(name)
    /\ LET gone == Subtree(name)
       IN  /\ engItems' = SelectSeq(engItems, LAMBDA x : x \notin gone)
           /\ engType' = [x \in DOMAIN engType \ gone |-> engType[x]]
           /\ engParent' = [x \in DOMAIN engParent \ gone |-> engParent[x]]
    /\ log' = NoCall
    /\ UNCHANGED <<_ITEM_LOOKUP, _ITEM_TYPES, _default_ctor, wrappers>>

\* A class decorated with its engine type tag.
RegisterItemType(tag) ==
    /\ tag \notin DOMAIN _ITEM_TYPES
    /\ _ITEM_TYPES' = Put(_ITEM_TYPES, tag, ClassOfTag(tag))
    /\ log' = NoCall
    /\ UNCHANGED <<engItems, engType, engParent, _ITEM_LOOKUP, _default_ctor, wrappers>>

SetDefaultCtor ==
    /\ _default_ctor = NoCtor
    /\ _default_ctor' = DefaultClass
    /\ log' = NoCall
    /\ UNCHANGED <<engItems, engType, engParent, _ITEM_LOOKUP, _ITEM_TYPES, wrappers>>

\* _register_item(self.id, self) for a wrapper object that exists.
RegisterItem(inst) ==
    /\ inst \in 1..Len(wrappers)
    /\ LET name == wrappers[inst].id
           r == _register_item(_ITEM_LOOKUP, name, inst)
       IN  /\ _ITEM_LOOKUP' = r.lookup
           /\ log' = [Call("_register_item", name) EXCEPT
                         !.ret = inst, !.warned = r.warned,
                         !.before = Get(_ITEM_LOOKUP, name)]
    /\ UNCHANGED <<engItems, engType, engParent, _ITEM_TYPES, _default_ctor, wrappers>>

\* A wrapper object constructed by the program: the item is added to the
\* engine unless the engine has it, and the object registers itself.
NewWrapper(name, par) ==
    /\ Len(wrappers) < MaxInst
    /\ IF does_item_exist(name)
       THEN par = "" /\ UNCHANGED <<engItems, engType, engParent>>
       ELSE CanAdd(name, par) /\ add_item(name, par)
    /\ LET made == ctor(ClassOfTag(TagOfId(name)), name)
       IN  /\ _ITEM_LOOKUP' = made.lookup
           /\ wrappers' = made.wrappers
           /\ log' = [Call("_register_item", name) EXCEPT
                         !.ret = made.ret, !.made = made.cls, !.warned = made.warned,
                         !.before = Get(_ITEM_LOOKUP, name)]
    /\ UNCHANGED <<_ITEM_TYPES, _default_ctor>>

GetItemById(name) ==
    LET r == get_item_by_id(name)
        again == log.op = "get_item_by_id" /\ log.name = name /\ log.status = "ok"
    IN  /\ Len(r.wrappers) <= MaxInst
        /\ _ITEM_LOOKUP' = r.lookup
        /\ wrappers' = r.wrappers
        /\ log' = [Call("get_item_by_id", name) EXCEPT
                      !.status = r.status, !.ret = r.ret, !.made = r.made,
                      !.warned = r.warned,
                      !.before = IF again THEN log.ret ELSE None,
                      !.lazy = again /\ log.made # NoCtor]
        /\ UNCHANGED <<engItems, engType, engParent, _ITEM_TYPES, _default_ctor>>

UnregisterItem(name, unregister_children) ==
    /\ _ITEM_LOOKUP' = _unregister_item(_ITEM_LOOKUP, name, unregister_children)
    /\ log' = [Call("_unregister_item", name) EXCEPT
                  !.cascade = unregister_children,
                  !.removed = DOMAIN _ITEM_LOOKUP \ DOMAIN _ITEM_LOOKUP']
    /\ UNCHANGED <<engItems, engType, engParent, _ITEM_TYPES, _default_ctor, wrappers>>

\* An iteration consumed to its end: the wrappers it yielded, and the
\* get_item_by_id call that ended it if one raised.
Iterate(op, r) ==
    /\ Len(r.wrappers) <= MaxInst
    /\ _ITEM_LOOKUP' = r.lookup
    /\ wrappers' = r.wrappers
    /\ log' = [Call(op, r.name) EXCEPT !.status = r.status, !.yielded = r.yielded]
    /\ UNCHANGED <<engItems, engType, engParent, _ITEM_TYPES, _default_ctor>>

IterAllItems == Iterate("iter_all_items", iter_all_items)

IterAllWindows == Iterate("iter_all_windows", iter_all_windows)

RegistryNext ==
    \/ \E name \in Ids, par \in Ids \cup {""} : EngineAddItem(name, par)
    \/ \E name \in Ids : EngineDeleteItem(name)
    \/ \E tag \in Tags : RegisterItemType(tag)
    \/ SetDefaultCtor
    \/ \E inst \in 1..MaxInst : RegisterItem(inst)
    \/ \E name \in Ids, par \in Ids \cup {""} : NewWrapper(name, par)
    \/ \E name \in Ids : GetItemById(name)
    \/ \E name \in Ids, c \in BOOLEAN : UnregisterItem(name, c)
    \/ IterAllItems
    \/ IterAllWindows

Next == RegistryNext /\ UNCHANGED <<held, scopeVars, config, links>>

Spec == Init /\ [][Next]_vars

----------------------------------------------------------------------------
\* The registry calls of a program that keeps and drops its references

\* The wrapper objects that are alive: those the program holds a reference
\* to and those the registry refers to.
Live == held \cup {_ITEM_LOOKUP[n] : n \in DOMAIN _ITEM_LOOKUP}

\* The program keeps what a call returned.
Hold(ret) == held' = IF ret = None THEN held ELSE held \cup {ret}

\* The program lets go of a wrapper object.
Drop(inst) ==
    /\ inst \in held
    /\ held' = held \ {inst}
    /\ log' = NoCall
    /\ UNCHANGED <<engItems, engType, engParent, _ITEM_LOOKUP, _ITEM_TYPES,
                   _default_ctor, wrappers>>

LiveNext ==
    /\ \/ \E name \in Ids, par \in Ids \cup {""} :
              EngineAddItem(name, par) /\ UNCHANGED held
       \/ \E tag \in Tags : RegisterItemType(tag) /\ UNCHANGED held
       \/ \E name \in Ids, par \in Ids \cup {""} : NewWrapper(name, par) /\ Hold(log'.ret)
       \/ \E inst \in Live : RegisterItem(inst) /\ UNCHANGED held
       \/ \E name \in Ids : GetItemById(name) /\ Hold(log'.ret)
       \/ \E name \in Ids, c \in BOOLEAN : UnregisterItem(name, c) /\ UNCHANGED held
       \/ \E inst \in 1..MaxInst : Drop(inst)
    /\ UNCHANGED <<scopeVars, config, links>>

SpecLive == Init /\ [][LiveNext]_vars

----------------------------------------------------------------------------
\* Container scoping: the with-blocks of Window, ScrollView, NodeEditor, Node
\* and NodeAttribute

ContainerIds == {"win1", "grp1", "ned1", "node1", "nattr1"}

\* The record of the last scoping step: for the exit of a with-block, the
\* container and its class, the number of end() calls __exit__ made, the
\* engine's depth before the container was constructed, whether the block
\* was left by an exception, and how many blocks the program was inside.
NoScope ==
    [op |-> "none", name |-> "", cls |-> "", ends |-> 0, base |-> 0,
     byexc |-> FALSE, nest |-> 0]

InitScope ==
    /\ InitRegistry
    /\ config = NewConfig
    /\ links = {}
    /\ log = NoScope

\* The container the engine adds new items to: the innermost open one.
Top(st) == IF st = <<>> THEN "" ELSE st[Len(st)]

\* dearpygui.core.end(): closes the innermost open container.
end(st) == IF st = <<>> THEN st ELSE SubSeq(st, 1, Len(st) - 1)

\* self.is_container(): the engine's answer for the wrapper's item.
is_container(name) == does_item_exist(name) /\ IsContainerTag(get_item_type(name))

\* What an __exit__ did: the number of end() calls, and whether it returned
\* a true value (which would suppress the exception).
ExitResult(ends, ret) == [ends |-> ends, swallow |-> ret]

Window__exit__(name) == ExitResult(1, FALSE)

\* ScrollView.__exit__ that calls end() unless the item is a container.
ScrollView__exit__unless(name) ==
    ExitResult(IF is_container(name) THEN 0 ELSE 1, FALSE)

ScrollView__exit__(name) ==
    ExitResult(IF is_container(name) THEN 1 ELSE 0, FALSE)

NodeEditor__exit__(name) == ExitResult(1, FALSE)

Node__exit__(name) == ExitResult(1, FALSE)

NodeAttribute__exit__(name) == ExitResult(1, FALSE)

ExitOf(cls, name) ==
    CASE cls = "Window" -> Window__exit__(name)
      [] cls = "ScrollView" -> ScrollView__exit__(name)
      [] cls = "NodeEditor" -> NodeEditor__exit__(name)
      [] cls = "Node" -> Node__exit__(name)
      [] cls = "NodeAttribute" -> NodeAttribute__exit__(name)

\* A container can be constructed: a window at the top level of the item
\* table, any other inside the innermost open container.
CanOpen(name) ==
    /\ ~raised
    /\ ~does_item_exist(name)
    /\ Len(stack) < MaxDepth
    /\ TagOfId(name) # WindowTag => stack # <<>>

\* _setup_add_widget of a container class: the engine adds the item and
\* opens it; the constructor registers the wrapper.
_setup_add_widget(name) ==
    /\ add_item(name, IF TagOfId(name) = WindowTag THEN "" ELSE Top(stack))
    /\ stack' = Append(stack, name)
    /\ LET made == ctor(ClassOfTag(TagOfId(name)), name)
       IN  /\ _ITEM_LOOKUP' = made.lookup
           /\ wrappers' = made.wrappers

\* with Cls(name_id = name): the container is constructed and the block is
\* entered; __enter__ returns self.
With(name) ==
    /\ CanOpen(name)
    /\ _setup_add_widget(name)
    /\ scopes' = <<[id |-> name, cls |-> ClassOfTag(TagOfId(name)),
                    base |-> Len(stack)]>> \o scopes
    /\ log' = [NoScope EXCEPT !.op = "enter", !.name = name]
    /\ UNCHANGED <<raised, _ITEM_TYPES, _default_ctor, held, config, links>>

\* Cls(name_id = name) outside every with-block: the container stays open
\* until the program calls end().
Construct(name) ==
    /\ scopes = <<>>
    /\ CanOpen(name)
    /\ _setup_add_widget(name)
    /\ log' = NoScope
    /\ UNCHANGED <<scopes, raised, _ITEM_TYPES, _default_ctor, held, config, links>>

\* dpgcore.end() called by the program outside every with-block.
End ==
    /\ scopes = <<>>
    /\ ~raised
    /\ stack # <<>>
    /\ stack' = end(stack)
    /\ log' = NoScope
    /\ UNCHANGED <<engItems, engType, engParent, _ITEM_LOOKUP, _ITEM_TYPES,
                   _default_ctor, wrappers, held, scopes, raised, config, links>>

\* The body of a block adds a widget that is not a container.
AddWidget(name) ==
    /\ ~raised
    /\ stack # <<>>
    /\ ~does_item_exist(name)
    /\ add_item(name, Top(stack))
    /\ log' = NoScope
    /\ UNCHANGED <<_ITEM_LOOKUP, _ITEM_TYPES, _default_ctor, wrappers, held,
                   scopeVars, config, links>>

\* The body of the innermost block raises.
Raise ==
    /\ scopes # <<>>
    /\ ~raised
    /\ raised' = TRUE
    /\ log' = NoScope
    /\ UNCHANGED <<engItems, engType, engParent, _ITEM_LOOKUP, _ITEM_TYPES,
                   _default_ctor, wrappers, held, stack, scopes, config, links>>

\* The innermost block is left, at the end of its body or by the exception
\* that is propagating: its container's __exit__ runs.
Exit ==
    /\ scopes # <<>>
    /\ LET sc == Head(scopes)
           r == ExitOf(sc.cls, sc.id)
       IN  /\ stack' = IF r.ends = 1 THEN end(stack) ELSE stack
           /\ raised' = (raised /\ ~r.swallow)
           /\ log' = [NoScope EXCEPT !.op = "exit", !.name = sc.id, !.cls = sc.cls,
                                     !.ends = r.ends, !.base = sc.base,
                                     !.byexc = raised, !.nest = Len(scopes)]
    /\ scopes' = Tail(scopes)
    /\ UNCHANGED <<engItems, engType, engParent, _ITEM_LOOKUP, _ITEM_TYPES,
                   _default_ctor, wrappers, held, config, links>>

\* The exception has left every block and the program handles it.
Handle ==
    /\ scopes = <<>>
    /\ raised
    /\ raised' = FALSE
    /\ log' = NoScope
    /\ UNCHANGED <<engItems, engType, engParent, _ITEM_LOOKUP, _ITEM_TYPES,
                   _default_ctor, wrappers, held, stack, scopes, config, links>>

ScopeNext ==
    \/ \E name \in ContainerIds : With(name)
    \/ \E name \in ContainerIds : Construct(name)
    \/ End
    \/ AddWidget("btn1")
    \/ Raise
    \/ Exit
    \/ Handle

SpecScope == InitScope /\ [][ScopeNext]_vars

----------------------------------------------------------------------------
\* The calls on config properties

\* The record of the last property access: the widget and the attribute, the
\* value assigned or read, how a read ended, and for a read that follows an
\* assignment of the same property at once, the value that was assigned.
NoAccess ==
    [op |-> "none", name |-> "", attr |-> "", status |-> "ok", val |-> "",
     fresh |-> FALSE, wrote |-> ""]

InitCfg ==
    /\ InitRegistry
    /\ config = NewConfig
    /\ links = {}
    /\ log = NoAccess

\* widget.attr = value
SetProp(name, attr, value) ==
    /\ config' = configure_item(config, name, UpdateFor(attr, value))
    /\ log' = [NoAccess EXCEPT !.op = "set", !.name = name, !.attr = attr,
                                !.val = value, !.wrote = value]
    /\ UNCHANGED <<regVars, links>>

\* widget.attr
GetProp(name, attr) ==
    LET r == ReadProp(name, attr)
        fresh == log.op = "set" /\ log.name = name /\ log.attr = attr
    IN  /\ log' = [NoAccess EXCEPT !.op = "get", !.name = name, !.attr = attr,
                                   !.status = r.status, !.val = r.val,
                                   !.fresh = fresh,
                                   !.wrote = IF fresh THEN log.val ELSE r.val]
        /\ UNCHANGED <<regVars, config, links>>

\* dearpygui.core.configure_item called directly on one key.
EngineConfigure(name, key, value) ==
    /\ key \in DOMAIN config[name]
    /\ value \in EngineValues(key)
    /\ config' = configure_item(config, name, [k \in {key} |-> value])
    /\ log' = NoAccess
    /\ UNCHANGED <<regVars, links>>

CfgWidgets == Widgets \ {"attr2"}

CfgNext ==
    \/ \E p \in Props : p[1] \in CfgWidgets /\ \E v \in ValuesOf(p[2]) : SetProp(p[1], p[2], v)
    \/ \E p \in Props : p[1] \in CfgWidgets /\ GetProp(p[1], p[2])
    \/ \E w \in CfgWidgets : \E k \in DOMAIN NewConfig[w] : \E v \in EngineValues(k) :
          EngineConfigure(w, k, v)

SpecCfg == InitCfg /\ [][CfgNext]_vars

----------------------------------------------------------------------------
\* The calls on node links

\* The record of the last link call: the two endpoints given, how the call
\* ended, and the input and output ends of the NodeLink it returned.
NoLinkCall ==
    [op |-> "none", end1 |-> "", end2 |-> "", status |-> "ok", input |-> "",
     output |-> ""]

LinkCall(op, end1, end2, r) ==
    [op |-> op, end1 |-> end1, end2 |-> end2, status |-> r.status,
     input |-> r.input, output |-> r.output]

InitLink ==
    /\ InitRegistry
    /\ config = NewConfig
    /\ links = {}
    /\ log = NoLinkCall

\* attribute.type = value
SetType(name, value) ==
    /\ config' = configure_item(config, name, UpdateFor("type", value))
    /\ log' = NoLinkCall
    /\ UNCHANGED <<regVars, links>>

\* dearpygui.core.configure_item called directly on an attribute.
EngineConfigureAttr(name, key, value) ==
    /\ config' = configure_item(config, name, [k \in {key} |-> value])
    /\ log' = NoLinkCall
    /\ UNCHANGED <<regVars, links>>

\* NodeLink.from_endpoints(end1, end2)
FromEndpoints(end1, end2) ==
    /\ log' = LinkCall("from_endpoints", end1, end2, from_endpoints(end1, end2))
    /\ UNCHANGED <<regVars, config, links>>

\* NodeEditor.add_link(end1, end2)
AddLink(end1, end2) ==
    /\ links' = add_node_link(links, end1, end2)
    /\ log' = LinkCall("add_link", end1, end2, from_endpoints(end1, end2))
    /\ UNCHANGED <<regVars, config>>

\* NodeEditor.delete_link(end1, end2)
DeleteLink(end1, end2) ==
    /\ links' = delete_node_link(links, end1, end2)
    /\ log' = LinkCall("delete_link", end1, end2, Link("ok", "", ""))
    /\ UNCHANGED <<regVars, config>>

LinkNext ==
    \/ \E a \in NodeAttributes, t \in NodeAttributeTypes : SetType(a, t)
    \/ \E a \in NodeAttributes, k \in {"output", "static"}, v \in BOOLEAN :
          EngineConfigureAttr(a, k, v)
    \/ \E a, b \in NodeAttributes : FromEndpoints(a, b)
    \/ \E a, b \in NodeAttributes : AddLink(a, b)
    \/ \E a, b \in NodeAttributes : DeleteLink(a, b)

SpecLink == InitLink /\ [][LinkNext]_vars

----------------------------------------------------------------------------
\* The registry's properties

\* The items inside an item, at any depth, by the engine's parent links.
Descendants(name) == {d \in Range(engItems) : name \in Ancestors(engParent, d)}

\* C1: when get_item_by_id(id) returned a wrapper and is called again at once,
\* the second call returns the same wrapper, whether the first call found it
\* in the registry or constructed it.
C1_IdentityStable ==
    (log.op = "get_item_by_id" /\ log.before # None)
        => (log.status = "ok" /\ log.ret = log.before)

\* The second of two calls for an item made outside the wrapper library, the
\* first of which constructed the wrapper.
C1_Witness ==
    /\ log.op = "get_item_by_id"
    /\ log.lazy
    /\ log.before # None
    /\ log.ret = log.before
    /\ log.made = NoCtor

\* C2: get_item_by_id(id) for an id the engine reports absent ends in KeyError,
\* constructs nothing and leaves the registry and the engine as they were,
\* whether or not the registry holds an entry for id.
C2_NotFound ==
    [][(log'.op = "get_item_by_id" /\ ~does_item_exist(log'.name))
         => /\ log'.status = "KeyError"
            /\ log'.ret = None
            /\ log'.made = NoCtor
            /\ UNCHANGED <<_ITEM_LOOKUP, wrappers, engItems, engType, engParent>>]_vars

\* A KeyError for a name that still has a registry entry.
C2_Witness ==
    /\ log.op = "get_item_by_id"
    /\ log.status = "KeyError"
    /\ log.name \in DOMAIN _ITEM_LOOKUP
    /\ ~does_item_exist(log.name)

\* C3: get_item_by_id(id) for a live id with no registry entry, when the type
\* registry or the default gives a constructor for the item's type tag,
\* returns a new wrapper that the registry then holds under id, constructed
\* by the class registered for the tag, or by the default when none is.
C3_LazyCached ==
    [][(/\ log'.op = "get_item_by_id"
        /\ does_item_exist(log'.name)
        /\ log'.name \notin DOMAIN _ITEM_LOOKUP
        /\ (engType[log'.name] \in DOMAIN _ITEM_TYPES \/ _default_ctor # NoCtor))
         => /\ log'.status = "ok"
            /\ log'.ret = Len(wrappers) + 1
            /\ Len(wrappers') = Len(wrappers) + 1
            /\ wrappers'[log'.ret].id = log'.name
            /\ log'.name \in DOMAIN _ITEM_LOOKUP'
            /\ _ITEM_LOOKUP'[log'.name] = log'.ret
            /\ log'.made = IF engType[log'.name] \in DOMAIN _ITEM_TYPES
                            THEN ClassOfTag(engType[log'.name])
                            ELSE DefaultClass]_vars

\* A wrapper constructed by the class registered for the tag although a
\* default constructor is set, and held by the registry.
C3_Witness ==
    /\ log.op = "get_item_by_id"
    /\ log.made = ClassOfTag(ButtonTag)
    /\ _default_ctor = DefaultClass
    /\ log.name \in DOMAIN _ITEM_LOOKUP
    /\ _ITEM_LOOKUP[log.name] = log.ret
    /\ log.ret = Len(wrappers)

\* C4: get_item_by_id(id) for a live id with no registry entry, whose type tag
\* has no registered constructor while no default constructor is set, ends in
\* ValueError, constructs nothing and leaves the registry as it was.
C4_NoConstructor ==
    [][(/\ log'.op = "get_item_by_id"
        /\ does_item_exist(log'.name)
        /\ log'.name \notin DOMAIN _ITEM_LOOKUP
        /\ engType[log'.name] \notin DOMAIN _ITEM_TYPES
        /\ _default_ctor = NoCtor)
         => /\ log'.status = "ValueError"
            /\ log'.ret = None
            /\ log'.made = NoCtor
            /\ UNCHANGED <<_ITEM_LOOKUP, wrappers>>]_vars

\* A ValueError for a live item, while another tag has a constructor.
C4_Witness ==
    /\ log.op = "get_item_by_id"
    /\ log.status = "ValueError"
    /\ does_item_exist(log.name)
    /\ log.name \notin DOMAIN _ITEM_LOOKUP
    /\ DOMAIN _ITEM_TYPES # {}

\* C5: _register_item(id, instance) ends without an exception and leaves the
\* registry holding instance under id; it warns exactly when id had an entry
\* before the call; and get_item_by_id(id), id being live, then returns
\* instance.
C5_RegisterOverwrites ==
    [][\A n \in Ids :
         (log'.op = "_register_item" /\ log'.name = n)
           => /\ log'.status = "ok"
              /\ n \in DOMAIN _ITEM_LOOKUP'
              /\ _ITEM_LOOKUP'[n] = log'.ret
              /\ log'.warned <=> (n \in DOMAIN _ITEM_LOOKUP)
              /\ does_item_exist(n)' =>
                     /\ get_item_by_id(n)'.status = "ok"
                     /\ get_item_by_id(n)'.ret = log'.ret]_vars

\* Instance B registered, with a warning, under the id of a live item that
\* instance A was registered under.
C5_Witness ==
    /\ log.op = "_register_item"
    /\ log.warned
    /\ log.before # None
    /\ log.before # log.ret
    /\ does_item_exist(log.name)
    /\ _ITEM_LOOKUP[log.name] = log.ret

\* C6: after _unregister_item(id, True) the registry has no entry for id nor
\* for any item inside id, at any depth.
C6_CascadeRemovesAll ==
    (log.op = "_unregister_item" /\ log.cascade)
        => \A d \in {log.name} \cup Descendants(log.name) : d \notin DOMAIN _ITEM_LOOKUP

\* A cascade from an id without an entry that removed the entries of a child
\* and of a child's child.
C6_Witness ==
    /\ log.op = "_unregister_item"
    /\ log.cascade
    /\ log.name \notin log.removed
    /\ \E c, g \in log.removed :
          /\ engParent[c] = log.name
          /\ engParent[g] = c

----------------------------------------------------------------------------
\* The node links' properties

\* The type an attribute's configuration gives it: Output when the engine
\* holds 'output', else Static when it holds 'static', else Input.
TypeOf(name) ==
    IF config[name]["output"] THEN "Output"
    ELSE IF config[name]["static"] THEN "Static"
    ELSE "Input"

\* How many of the two endpoints given have the type.
CountOf(type) ==
    (IF TypeOf(log.end1) = type THEN 1 ELSE 0) + (IF TypeOf(log.end2) = type THEN 1 ELSE 0)

\* C7: from_endpoints(a, b) returns a NodeLink exactly when one of a, b is an
\* Input and one is an Output; the link's input is then the Input end and its
\* output the Output end, in either argument order; in every other case it
\* raises NodeLinkError.
C7_FromEndpoints ==
    (log.op = "from_endpoints")
        => /\ (log.status = "ok") <=> (CountOf("Input") = 1 /\ CountOf("Output") = 1)
           /\ log.status = "ok" =>
                  /\ {log.input, log.output} = {log.end1, log.end2}
                  /\ TypeOf(log.input) = "Input"
                  /\ TypeOf(log.output) = "Output"
           /\ log.status # "ok" => log.status = "NodeLinkError"

\* A link made from an Output given first and an Input given second.
C7_Witness ==
    /\ log.op = "from_endpoints"
    /\ log.status = "ok"
    /\ TypeOf(log.end1) = "Output"
    /\ log.input = log.end2
    /\ log.output = log.end1

\* C8: an add_link that ends in NodeLinkError leaves the engine's links as
\* they were before the call.
C8_ValidationFirst ==
    [][(log'.op = "add_link" /\ log'.status = "NodeLinkError") => links' = links]_vars

----------------------------------------------------------------------------
\* The config properties' properties

\* The engine key the specification gives each plain property: 'overlay' for
\* overlay_text, 'count' for space, the attribute's name for the others.
EngineKeyOf(attr) ==
    CASE attr = "overlay_text" -> "overlay"
      [] attr = "space" -> "count"
      [] OTHER -> attr

\* C9: a property with no custom transform, read right after it was assigned
\* v, yields v; and the assignment leaves v under the property's engine key,
\* no entry being made under the attribute's own name where the two differ.
C9_PlainRoundTrip ==
    /\ (log.op = "get" /\ log.fresh /\ <<log.name, log.attr>> \in PlainProps)
          => (log.status = "ok" /\ log.val = log.wrote)
    /\ (log.op = "set" /\ <<log.name, log.attr>> \in PlainProps)
          => /\ config[log.name][EngineKeyOf(log.attr)] = log.val
             /\ DOMAIN config[log.name] = DOMAIN NewConfig[log.name]

\* overlay_text read back as "a" from the engine's 'overlay' entry.
C9_Witness ==
    /\ log.op = "get"
    /\ log.fresh
    /\ log.name = "pb1"
    /\ log.attr = "overlay_text"
    /\ log.val = "a"
    /\ config["pb1"]["overlay"] = "a"

\* C10: Window.pos, Button.arrow and NodeAttribute.type, read right after
\* being assigned a value, yield that value, whatever the widget's
\* configuration was before the assignment.
C10_CompositeRoundTrip ==
    (log.op = "get" /\ log.fresh /\ <<log.name, log.attr>> \in CompositeProps)
        => (log.status = "ok" /\ log.val = log.wrote)

\* arrow read back as Up, the engine holding the flag and the direction 2.
C10_Witness ==
    /\ log.op = "get"
    /\ log.fresh
    /\ log.attr = "arrow"
    /\ log.val = "Up"
    /\ config["btn1"]["arrow"]
    /\ config["btn1"]["direction"] = 2

\* The keys the specification lets an assignment change: the property's
\* engine key; 'x_pos' and 'y_pos' for pos; 'arrow', and 'direction' too when
\* a direction is assigned, for arrow; 'output' and 'static' for type.
KeysWritten(attr, value) ==
    CASE attr = "pos" -> {"x_pos", "y_pos"}
      [] attr = "arrow" -> IF value = "None" THEN {"arrow"} ELSE {"arrow", "direction"}
      [] attr = "type" -> {"output", "static"}
      [] OTHER -> {EngineKeyOf(attr)}

\* C11: an assignment to a config property changes, in the engine's
\* configuration of that widget, at most the keys of its update; every other
\* key of the widget keeps its value, no key is added, and no other widget's
\* configuration changes.
C11_PartialMerge ==
    [][(log'.op = "set")
         => \A w \in Widgets :
              /\ DOMAIN config'[w] = DOMAIN config[w]
              /\ \A k \in DOMAIN config[w] :
                    (w # log'.name \/ k \notin KeysWritten(log'.attr, log'.val))
                        => config'[w][k] = config[w][k]]_vars

\* arrow assigned None, the engine keeping the direction 3 it held.
C11_Witness ==
    /\ log.op = "set"
    /\ log.attr = "arrow"
    /\ log.val = "None"
    /\ ~config["btn1"]["arrow"]
    /\ config["btn1"]["direction"] = 3
    /\ config["win1"]["x_pos"] = 1


\* The identifiers an iteration walks: what the engine reports for it.
NamesOf(op) == IF op = "iter_all_items" THEN get_all_items ELSE get_windows

IterOps == {"iter_all_items", "iter_all_windows"}

\* C12 as stated: an iteration yields exactly one wrapper per identifier the
\* engine's query reports, in the reported order.
C12_OnePerReportedId ==
    log.op \in IterOps
        => /\ Len(log.yielded) = Len(NamesOf(log.op))
           /\ \A i \in 1..Len(log.yielded) :
                 wrappers[log.yielded[i]].id = NamesOf(log.op)[i]

\* C12: iter_all_items() and iter_all_windows() leave the engine alone and
\* yield wrappers for a prefix of the identifiers the engine's query reports,
\* in the reported order: the i-th wrapper carries the i-th identifier, is the
\* instance registered under it before the call when there was one, and is
\* what get_item_by_id returns for it after the call. The prefix is the whole
\* list exactly when the iteration ends normally; otherwise it ends with the
\* ValueError of get_item_by_id at the first reported identifier that has no
\* registry entry and no resolvable constructor, having yielded the wrappers
\* before it.
C12_IterationResolves ==
    [][\A op \in IterOps :
         log'.op = op
           => LET names == NamesOf(op)
                  y == log'.yielded
                  n == Len(y)
              IN  /\ UNCHANGED <<engItems, engType, engParent>>
                  /\ n <= Len(names)
                  /\ \A i \in 1..n :
                        /\ y[i] \in 1..Len(wrappers')
                        /\ wrappers'[y[i]].id = names[i]
                        /\ names[i] \in DOMAIN _ITEM_LOOKUP => y[i] = _ITEM_LOOKUP[names[i]]
                        /\ get_item_by_id_in(_ITEM_LOOKUP', wrappers', names[i]).status = "ok"
                        /\ get_item_by_id_in(_ITEM_LOOKUP', wrappers', names[i]).ret = y[i]
                  /\ (log'.status = "ok") <=> (n = Len(names))
                  /\ n < Len(names)
                        => /\ log'.status = "ValueError"
                           /\ log'.name = names[n + 1]
                           /\ names[n + 1] \notin DOMAIN _ITEM_LOOKUP
                           /\ engType[names[n + 1]] \notin DOMAIN _ITEM_TYPES
                           /\ _default_ctor = NoCtor]_vars

\* An iteration over two items in the engine's order, which is not the order
\* their wrappers were made in, ended normally.
C12_Witness ==
    /\ log.op = "iter_all_items"
    /\ log.status = "ok"
    /\ get_all_items = <<"btn1", "grp1">>
    /\ log.yielded = <<2, 1>>


\* C13: no two distinct live wrapper instances carry the same identifier.
C13_OneWrapperPerId ==
    \A i \in Live, j \in Live : wrappers[i].id = wrappers[j].id => i = j


\* C14: leaving a with-block of a container, at the end of its body or by an
\* exception raised in it, makes exactly one end() call: the engine's depth
\* goes down by one and is then the depth before the block's container was
\* constructed, so after the outermost block the depth is what it was before
\* the nesting began; a propagating exception is still propagating.
C14_ScopingBalanced ==
    [][log'.op = "exit"
         => /\ log'.ends = 1
            /\ Len(stack') = Len(stack) - 1
            /\ Len(stack') = Head(scopes).base
            /\ scopes' = <<>> => Len(stack') = scopes[Len(scopes)].base
            /\ raised' = raised
            /\ log'.byexc = raised]_vars

\* A ScrollView's block nested in another block, above a container that was
\* open before the nesting began, is left by an exception.
C14_Witness ==
    /\ log.op = "exit"
    /\ log.cls = "ScrollView"
    /\ log.byexc
    /\ log.nest = 2
    /\ log.base = 2
    /\ raised
    /\ Len(stack) = 2


\* C15: _unregister_item(name, unregister_children) raises nothing, whether
\* or not the name has an entry, and modifies nothing but the registry: the
\* type registry, the default constructor, the engine's item table and the
\* wrapper objects are as before. The entries that remain are unchanged.
\* Without unregister_children no entry but the name's is removed, so the
\* entries of the item's children stay; with it, no entry is removed but
\* those of the name and of the item's descendants.
C15_UnregisterFrame ==
    [][\A n \in Ids :
         (log'.op = "_unregister_item" /\ log'.name = n)
           => /\ log'.status = "ok"
              /\ UNCHANGED <<_ITEM_TYPES, _default_ctor, engItems, engType,
                             engParent, wrappers>>
              /\ DOMAIN _ITEM_LOOKUP' \subseteq DOMAIN _ITEM_LOOKUP
              /\ \A k \in DOMAIN _ITEM_LOOKUP' : _ITEM_LOOKUP'[k] = _ITEM_LOOKUP[k]
              /\ ~log'.cascade
                    => DOMAIN _ITEM_LOOKUP \ DOMAIN _ITEM_LOOKUP' \subseteq {n}
              /\ log'.cascade
                    => DOMAIN _ITEM_LOOKUP \ DOMAIN _ITEM_LOOKUP'
                           \subseteq {n} \cup Descendants(n)]_vars

\* A window's entry was removed without unregister_children, and the entry
\* of the child inside it is still there.
C15_Witness ==
    /\ log.op = "_unregister_item"
    /\ log.name = "win1"
    /\ ~log.cascade
    /\ log.removed = {"win1"}
    /\ does_item_exist("grp1")
    /\ engParent["grp1"] = "win1"
    /\ "grp1" \in DOMAIN _ITEM_LOOKUP

====
